---- MODULE Spec2Model ----
(***************************************************************************)
(* Model of the OTBioLab save-dialog automation of hdsemg-trail:           *)
(*   src/resources/get_save_dialog.py  identity store, resolver, poll loop *)
(*                                     and interactor                      *)
(*   src/app/main.py                   the wizard handlers that start a    *)
(*                                     worker thread per handoff and the   *)
(*                                     completion callbacks run by Tk      *)
(* Strings whose characters matter (window titles, keywords) are tuples of *)
(* one-character strings.                                                  *)
(***************************************************************************)
EXTENDS Integers, Sequences, FiniteSets, TLC

VARIABLES
    file,            \* content of .win_auto_program.json in the working directory
    worker,          \* per request: the locals of its worker thread and of save_in_word_dialog
    afterQueue,      \* callbacks scheduled with self.after(0, ...) and not yet run
    trigger_button,  \* state of SessionApp.trigger_button
    next_button,     \* state of SessionApp.next_button
    status_var,      \* SessionApp.status_var
    current_step_otbiolab_paths,         \* paths handed off for the current step
    current_step_field_otbiolab_files,   \* paths handed off for the template field of the step
    current_step_repeated_measurements,  \* attempts of the repeated-measurement field of the step
    current_step_index,   \* SessionApp.current_step_index, counted from 0
    step_results,         \* SessionApp.step_results
    session_finished      \* SessionApp.session_finished: the summary frame is shown

\* the position of the session in the declaration and what it recorded
sessionVars == <<current_step_index, step_results, session_finished>>

\* the state of the wizard, owned by the Tk main loop
uiVars == <<trigger_button, next_button, status_var, current_step_otbiolab_paths,
            current_step_field_otbiolab_files, current_step_repeated_measurements,
            sessionVars>>

vars == <<file, worker, afterQueue, uiVars>>

----------------------------------------------------------------------------
(* Bounds *)

\* windows one backend enumerates
MaxWindows == 2
\* timeout=25 of the step and field triggers, in poll intervals of 0.2 s (scaled down)
TimeoutPolls == 2
\* timeout=30 of the repeated-measurement trigger, in poll intervals (scaled down)
TimeoutPollsRepeated == 3
\* cap of the per-request counters of keystroke injections and poll iterations
MaxCount == 2
\* attempts the user adds to the repeated-measurement field
MaxAttempts == 1
\* longest window title handed to _derive_keyword
MaxTitle == 4
\* steps of the declaration
NumSteps == 2
\* handoff requests of one session that may overlap
MaxRequests == 2

\* time.sleep(0.2): the poll interval, in clock ticks of 0.1 s
PollTicks == 2

\* the model follows one handoff request from its submission to its callback
Requests == {1}

Min(a, b) == IF a < b THEN a ELSE b

----------------------------------------------------------------------------
(* Text *)

Lower(c) ==
    CASE c = "L" -> "l"
      [] c = "O" -> "o"
      [] c = "T" -> "t"
      [] OTHER -> c

LowerStr(s) == [i \in 1..Len(s) |-> Lower(s[i])]

IsSpace(c) == c = " "

\* str.strip(): drop leading and trailing whitespace
RECURSIVE LStrip(_)
LStrip(s) == IF s # <<>> /\ IsSpace(Head(s)) THEN LStrip(Tail(s)) ELSE s

RECURSIVE RStrip(_)
RStrip(s) ==
    IF s # <<>> /\ IsSpace(s[Len(s)]) THEN RStrip(SubSeq(s, 1, Len(s) - 1)) ELSE s

Strip(s) == RStrip(LStrip(s))

\* Python's `sub in s`
Contains(sub, s) ==
    \E i \in 0..(Len(s) - Len(sub)) : SubSeq(s, i + 1, i + Len(sub)) = sub

\* hyphen, en dash ("ndash"), em dash ("mdash")
IsDash(c) == c \in {"-", "ndash", "mdash"}

\* the pieces of s between dashes
RECURSIVE SplitDash(_, _)
SplitDash(s, cur) ==
    IF s = <<>> THEN <<cur>>
    ELSE IF IsDash(Head(s)) THEN <<cur>> \o SplitDash(Tail(s), <<>>)
    ELSE SplitDash(Tail(s), Append(cur, Head(s)))

FilterNonEmpty(parts) == SelectSeq(parts, LAMBDA p : p # <<>>)

StripAll(parts) == [i \in 1..Len(parts) |-> Strip(parts[i])]

\* _derive_keyword as `return parts[0]` would make it
_derive_keyword_first(title) ==
    LET parts == FilterNonEmpty(StripAll(SplitDash(title, <<>>)))
    IN  IF parts # <<>> THEN parts[1] ELSE Strip(title)

\* re.split on hyphen, en dash or em dash with the whitespace around it, every part stripped, empty parts dropped;
\* the last part, or the stripped title when no part is left
_derive_keyword(title) ==
    LET parts == FilterNonEmpty(StripAll(SplitDash(title, <<>>)))
    IN  IF parts # <<>> THEN parts[Len(parts)] ELSE Strip(title)

----------------------------------------------------------------------------
(* Target identity store *)

None == [none |-> TRUE]

Identity(c, k) == [class_name |-> c, keyword |-> k]

\* contents of the record file: absent, unreadable (read_text fails), undecodable
\* bytes, text that is no JSON, a JSON array, or a JSON object holding the keys `has`
FileContent(kind, has, c, k) == [kind |-> kind, has |-> has, class_name |-> c, keyword |-> k]

NoFile == FileContent("absent", {}, "", <<>>)
\* the file right after open(path, "w"): it exists and holds nothing
EmptyFile == FileContent("empty", {}, "", <<>>)
\* a prefix of the JSON text of a record
TruncatedFile == FileContent("truncated", {}, "", <<>>)

RecordFile(config) ==
    FileContent("object", {"class_name", "keyword"}, config.class_name, config.keyword)

\* the body of the try block of _load_config: what it returns or raises
LoadTry(f) ==
    IF f.kind = "unreadable" THEN [exc |-> "OSError", value |-> None]
    ELSE IF f.kind = "undecodable" THEN [exc |-> "UnicodeDecodeError", value |-> None]
    ELSE IF f.kind \in {"empty", "truncated", "not_json"}
        THEN [exc |-> "JSONDecodeError", value |-> None]
    ELSE IF f.kind # "object" THEN [exc |-> "ValueError", value |-> None]
    ELSE IF "class_name" \in f.has /\ "keyword" \in f.has
        THEN [exc |-> "none", value |-> Identity(f.class_name, f.keyword)]
    ELSE [exc |-> "none", value |-> None]

\* LoadCatches as `except json.JSONDecodeError` would make it
LoadCatchesJSONOnly(exc) == exc = "JSONDecodeError"

\* except Exception: every exception of the try block is an Exception
LoadCatches(exc) == TRUE

_load_config(f) ==
    IF f.kind = "absent" THEN [raised |-> FALSE, value |-> None]
    ELSE LET t == LoadTry(f)
         IN  IF t.exc = "none" THEN [raised |-> FALSE, value |-> t.value]
             ELSE IF LoadCatches(t.exc) THEN [raised |-> FALSE, value |-> None]
             ELSE [raised |-> TRUE, value |-> None]

----------------------------------------------------------------------------
(* Window index *)

Window(c, t, p, v, r) == [class_name |-> c, title |-> t, pid |-> p, visible |-> v, raises |-> r]

\* the main window of the automated application, owned by process 42
WApp == Window("OTBioLab", <<"O", "T", " ", "-", " ", "L", "a", "b">>, 42, TRUE, FALSE)
\* a window of another process whose title holds the same keyword
WOther == Window("Notepad", <<"l", "a", "b">>, 7, TRUE, FALSE)
\* a window whose inspection raises (it closed during the enumeration)
WBroken == Window("OTBioLab", <<"L", "a", "b">>, 13, TRUE, TRUE)

\* a window without a title, owned by a third process
WUntitled == Window("OTBioLab", <<>>, 99, TRUE, FALSE)

Windows == {WApp, WOther, WBroken, WUntitled}

RECURSIVE SeqsUpTo(_, _)
SeqsUpTo(S, n) ==
    IF n = 0 THEN {<<>>}
    ELSE LET shorter == SeqsUpTo(S, n - 1)
         IN  shorter \cup {Append(q, x) : q \in shorter, x \in S}

\* what one backend gives: Desktop(backend=be) raises, .windows() raises, or a list
BackendViews ==
    {[state |-> "ctor_raise", windows |-> <<>>], [state |-> "enum_raise", windows |-> <<>>]}
    \cup {[state |-> "ok", windows |-> ws] : ws \in SeqsUpTo(Windows, MaxWindows)}

Backends == <<"uia", "win32">>

DesktopSnapshots == [uia : BackendViews, win32 : BackendViews]

----------------------------------------------------------------------------
(* Interactive selection *)

\* str.lower() of the class names that occur
LowerName(c) ==
    CASE c = "OTBioLab" -> "otbiolab"
      [] c = "Notepad" -> "notepad"
      [] OTHER -> c

\* CandidateKey as `key = (class_name, title)` would make it
CandidateKeyCaseSensitive(w) == <<w.class_name, Strip(w.title)>>

\* key = (class_name.lower(), title.lower())
CandidateKey(w) == <<LowerName(w.class_name), LowerStr(Strip(w.title))>>

\* the loop of _prompt_for_config over desktop.windows(): visible windows with a
\* title and a class, the first of each (class, title) key, in enumeration order
RECURSIVE Candidates(_, _, _)
Candidates(ws, seen, acc) ==
    IF ws = <<>> THEN acc
    ELSE LET w == Head(ws)
             title == Strip(w.title)
         IN  IF w.raises \/ ~w.visible \/ title = <<>> \/ w.class_name = ""
                    \/ CandidateKey(w) \in seen
             THEN Candidates(Tail(ws), seen, acc)
             ELSE Candidates(Tail(ws), seen \cup {CandidateKey(w)},
                             Append(acc, [title |-> title, class_name |-> w.class_name]))

\* on_select of _show_window_selection_dialog
on_select(selected) ==
    Identity(selected.class_name, _derive_keyword(selected.title))

\* what the user does with the selection dialog: 0 cancels, i picks entry i;
\* "tk_error": the dialog could not be created on the worker thread
Choices(windows) == {[kind |-> "cancel", idx |-> 0], [kind |-> "tk_error", idx |-> 0]}
    \cup {[kind |-> "select", idx |-> i] : i \in 1..Len(windows)}

\* _prompt_for_config on the win32 view `view` with the user's `choice`
_prompt_for_config(view, choice) ==
    IF view.state = "ctor_raise" THEN [raised |-> FALSE, value |-> None]
    ELSE IF view.state = "enum_raise" THEN [raised |-> TRUE, value |-> None]
    ELSE LET windows == Candidates(view.windows, {}, <<>>)
         IN  IF windows = <<>> THEN [raised |-> FALSE, value |-> None]
             ELSE IF choice.kind = "tk_error" THEN [raised |-> TRUE, value |-> None]
             ELSE IF choice.kind = "select"
                 THEN [raised |-> FALSE, value |-> on_select(windows[choice.idx])]
             ELSE [raised |-> FALSE, value |-> None]

----------------------------------------------------------------------------
(* Target resolver *)

NoPid == [found |-> FALSE, pid |-> 0]

\* Matches as it would be if the class were compared also when class_name is empty
MatchesClassAlways(w, class_name, keyword) ==
    /\ ~w.raises
    /\ w.class_name = class_name
    /\ ~(keyword # <<>> /\ ~Contains(keyword, LowerStr(w.title)))

\* the two `continue` tests of _get_pid; an exception while inspecting w skips it
Matches(w, class_name, keyword) ==
    /\ ~w.raises
    /\ ~(class_name # "" /\ w.class_name # class_name)
    /\ ~(keyword # <<>> /\ ~Contains(keyword, LowerStr(w.title)))

RECURSIVE FirstMatch(_, _, _)
FirstMatch(ws, class_name, keyword) ==
    IF ws = <<>> THEN NoPid
    ELSE IF Matches(Head(ws), class_name, keyword)
        THEN [found |-> TRUE, pid |-> Head(ws).pid]
    ELSE FirstMatch(Tail(ws), class_name, keyword)

\* the body of `for be in (...)` for one backend: a backend whose Desktop() or
\* windows() raises gives no window
InBackend(view, class_name, keyword) ==
    IF view.state # "ok" THEN NoPid ELSE FirstMatch(view.windows, class_name, keyword)

\* _get_pid as `for be in ("win32", "uia")` would make it
_get_pid_win32_first(config, snap) ==
    LET first == InBackend(snap.win32, config.class_name, LowerStr(config.keyword))
    IN  IF first.found THEN first
        ELSE InBackend(snap.uia, config.class_name, LowerStr(config.keyword))

\* for be in ("uia", "win32"): a backend that raises is skipped
_get_pid(config, snap) ==
    LET first == InBackend(snap.uia, config.class_name, LowerStr(config.keyword))
    IN  IF first.found THEN first
        ELSE InBackend(snap.win32, config.class_name, LowerStr(config.keyword))

\* EscapesBackend as it would be without the outer try/except of _get_pid
EscapesBackendUncaught(view) == view.state # "ok"

\* whether what Desktop(backend=be).windows() raises leaves _get_pid: the outer
\* `except Exception: continue` catches it
EscapesBackend(view) == FALSE

\* whether _get_pid raises: it enumerates "uia", and "win32" when "uia" gave no match
GetPidRaises(config, snap) ==
    \/ EscapesBackend(snap.uia)
    \/ /\ ~InBackend(snap.uia, config.class_name, LowerStr(config.keyword)).found
       /\ EscapesBackend(snap.win32)

\* NotPid as it would be without the test
NotPidNever(p) == FALSE

\* `if not pid` in save_in_word_dialog
NotPid(p) == ~p.found \/ p.pid = 0

----------------------------------------------------------------------------
(* Dialog interactor *)

\* what the acquired dialog answers to _fill_and_save_win32: whether the lookup of
\* the Edit and of the ComboBox with its embedded Edit succeed, whether set_focus,
\* set_edit_text(""), type_keys(path) and the confirmation (click_input or
\* type_keys("{ENTER}")) succeed; button: the Speichern button, the Save button, none
FillEnvs ==
    [edit : BOOLEAN, combo : BOOLEAN, focus : BOOLEAN, clear : BOOLEAN,
     type : BOOLEAN, button : {"de", "en", "none"}, confirm : BOOLEAN]

\* one call the interactor makes: its name, the object it is made on, whether it
\* came back without an exception
Call(name, on, ok) == [call |-> name, on |-> on, ok |-> ok]

\* Lookup as it would be if the ComboBox were looked up first
LookupComboFirst(e) ==
    IF e.combo THEN <<Call("child_window", "ComboBox.Edit", TRUE)>>
    ELSE <<Call("child_window", "ComboBox.Edit", FALSE), Call("child_window", "Edit", e.edit)>>

\* the lookup of the filename control: the Edit, and in its except clause the
\* ComboBox and the Edit inside it
Lookup(e) ==
    IF e.edit THEN <<Call("child_window", "Edit", TRUE)>>
    ELSE <<Call("child_window", "Edit", FALSE), Call("child_window", "ComboBox.Edit", e.combo)>>

\* the control `edit` is bound to
Control(e) == IF e.edit THEN "Edit" ELSE "ComboBox.Edit"

\* edit.set_focus(), edit.set_edit_text("") and edit.type_keys(path, ...)
Input(e) ==
    <<Call("set_focus", Control(e), e.focus),
      Call("set_edit_text", Control(e), e.clear),
      Call("type_keys(path)", Control(e), e.type)>>

\* the search for the button: "^S&?peichern$", and in its except clause "^Save$"
Search(e) ==
    IF e.button = "de" THEN <<Call("child_window", "Speichern", TRUE)>>
    ELSE <<Call("child_window", "Speichern", FALSE),
           Call("child_window", "Save", e.button = "en")>>

\* Confirmation as it would be without the else branch
ConfirmationClickOnly(e) ==
    IF e.button # "none" THEN <<Call("click_input", "Button", e.confirm)>>
    ELSE <<>>

\* `if btn: btn.click_input() else: dlg.type_keys("{ENTER}")`
Confirmation(e) ==
    IF e.button # "none" THEN <<Call("click_input", "Button", e.confirm)>>
    ELSE <<Call("type_keys({ENTER})", "dlg", e.confirm)>>

\* the calls whose exception an except clause of the interactor catches: the
\* lookup of the Edit, set_edit_text(""), the two searches for a button
Caught(c) ==
    \/ c.call = "child_window" /\ c.on \in {"Edit", "Speichern", "Save"}
    \/ c.call = "set_edit_text"

\* a call whose exception leaves the interactor
Escapes(c) == ~c.ok /\ ~Caught(c)

\* the calls of `calls` that are made: those up to the first whose exception escapes
RECURSIVE UpToRaise(_)
UpToRaise(calls) ==
    IF calls = <<>> THEN <<>>
    ELSE IF Escapes(Head(calls)) THEN <<Head(calls)>>
    ELSE <<Head(calls)>> \o UpToRaise(Tail(calls))

\* the calls one run of _fill_and_save_win32 makes on the dialog e, in order
FillCalls(e) == UpToRaise(Lookup(e) \o Input(e) \o Search(e) \o Confirmation(e))

\* how often the call `name` is among `calls`
Made(calls, name) == Cardinality({i \in DOMAIN calls : calls[i].call = name})

FillResult(raised, typed, clicks, enters) ==
    [raised |-> raised, value |-> ~raised, typed |-> typed, clicks |-> clicks, enters |-> enters]

\* _fill_and_save_win32 as it would be if it returned True only after a click
_fill_and_save_win32_needs_button(e) ==
    LET calls == FillCalls(e)
    IN  [FillResult(Escapes(calls[Len(calls)]), Made(calls, "type_keys(path)"),
                    Made(calls, "click_input"), Made(calls, "type_keys({ENTER})"))
            EXCEPT !.value = @ /\ e.button # "none"]

\* _fill_and_save_win32(dlg, path): whether it raised (it returns True otherwise),
\* and how often it ran edit.type_keys(path), btn.click_input() and
\* dlg.type_keys("{ENTER}")
_fill_and_save_win32(e) ==
    LET calls == FillCalls(e)
    IN  FillResult(Escapes(calls[Len(calls)]), Made(calls, "type_keys(path)"),
                   Made(calls, "click_input"), Made(calls, "type_keys({ENTER})"))

\* what one run of the interactor can do
FillOutcomes == {_fill_and_save_win32(e) : e \in FillEnvs}

----------------------------------------------------------------------------
(* Worker threads *)

Origins == {"step", "field", "repeated"}

\* timeout=25 (main.py 1185, 1240) and timeout=30 (main.py 718), in clock ticks
Timeout(origin) ==
    (IF origin = "repeated" THEN TimeoutPollsRepeated ELSE TimeoutPolls) * PollTicks

\* pc, config, pid, elapsed: the position and the locals of save_in_word_dialog;
\* timeout: its parameter; elapsed: time.time() - t0; both in clock ticks;
\* seen: what the desktop gave to the call in progress (the windows of the backends
\* to _get_pid and to _prompt_for_config, the dialog to strategy 1), while it runs;
\* ret, exit: what it returned ("true", "false") or that it raised, and where;
\* loaded, prompt, resolved: what _load_config, _prompt_for_config and _get_pid gave;
\* writes, iters, hits, filled, typed, clicks, enters: how often the request began
\* a write of the record file, began a poll iteration, printed a "#32770" hit,
\* got True from the interactor, ran edit.type_keys(path), btn.click_input() and
\* dlg.type_keys("{ENTER}"); posts: how often it called self.after;
\* hit, handed: the strategies (1, 2, 3) that printed a hit in the current poll
\* iteration, and those whose window reached _fill_and_save_win32;
\* step, number: current_step_index and file_number when the handler built the
\* file name of the target path
IdleWorker ==
    [pc |-> "idle", origin |-> "none", ctx |-> "none", attempt |-> 0,
     config |-> None, seen |-> None, pid |-> NoPid, timeout |-> 0, elapsed |-> 0,
     ret |-> "none", exit |-> "none",
     loaded |-> "pending", prompt |-> "pending", resolved |-> "pending",
     writes |-> 0, iters |-> 0, hits |-> 0, filled |-> 0,
     typed |-> 0, clicks |-> 0, enters |-> 0, posts |-> 0, hit |-> {}, handed |-> {},
     step |-> 0, number |-> 0]

\* ThreadStart as a plain call worker() would make it
ThreadStartInline == "ui"

\* threading.Thread(target=worker, daemon=True).start(): the request runs on a
\* thread of its own ("thread"), not on the Tk main loop ("ui")
ThreadStart == "thread"

StartedWorker(origin, attempt) ==
    [IdleWorker EXCEPT !.pc = "load", !.origin = origin, !.ctx = ThreadStart,
                       !.attempt = attempt, !.timeout = Timeout(origin)]

\* positions inside save_in_word_dialog
AutomationPcs ==
    {"load", "prompt", "choose", "select", "save_open", "save_write", "resolve", "match",
     "check", "s1_uia", "s1_win32", "fill", "s2", "s3", "sleep"}

\* positions of the worker function before its thread ends
RunningPcs == AutomationPcs \cup {"returned", "raised"}

\* the Tk main loop is free unless a request's worker function runs on it
UiIdle == \A r \in DOMAIN worker : worker[r].ctx = "ui" => worker[r].pc \notin RunningPcs

Bump(n, d) == Min(n + d, MaxCount)

\* save_in_word_dialog returns `value` at the return statement `exit`; its locals end
Return(w, value, exit) ==
    [w EXCEPT !.pc = "returned", !.ret = value, !.exit = exit,
              !.config = None, !.pid = NoPid, !.elapsed = 0]

\* an exception leaves save_in_word_dialog and is caught by the worker function
Raise(w) ==
    [w EXCEPT !.pc = "raised", !.ret = "raised", !.exit = "exception",
              !.config = None, !.pid = NoPid, !.elapsed = 0]

\* AfterLoad as it would be without `if config: return config`
AfterLoadPromptsAlways(w, loaded) ==
    IF loaded.raised THEN Raise([w EXCEPT !.loaded = "raised"])
    ELSE [w EXCEPT !.pc = "prompt",
                   !.loaded = IF loaded.value # None THEN "config" ELSE "none"]

\* _ensure_config after _load_config(): `if config: return config`, else prompt
AfterLoad(w, loaded) ==
    IF loaded.raised THEN Raise([w EXCEPT !.loaded = "raised"])
    ELSE IF loaded.value # None
        THEN [w EXCEPT !.pc = "resolve", !.config = loaded.value, !.loaded = "config"]
    ELSE [w EXCEPT !.pc = "prompt", !.loaded = "none"]

\* _ensure_config, first half
LoadConfig(r) ==
    /\ worker[r].pc = "load"
    /\ worker' = [worker EXCEPT ![r] = AfterLoad(@, _load_config(file))]
    /\ UNCHANGED <<file, afterQueue, uiVars>>

\* AfterPrompt as it would be if _save_config ran without the `if config` test
AfterPromptSavesAlways(w, prompted) ==
    IF prompted.raised THEN Raise([w EXCEPT !.prompt = "raised"])
    ELSE IF prompted.value = None
        THEN [w EXCEPT !.pc = "save_open", !.config = Identity("", <<>>),
                       !.prompt = "declined"]
    ELSE [w EXCEPT !.pc = "save_open", !.config = prompted.value, !.prompt = "selected"]

\* _ensure_config after _prompt_for_config(): `if config: _save_config(config)`;
\* save_in_word_dialog: `if not config: return False`
AfterPrompt(w, prompted) ==
    IF prompted.raised THEN Raise([w EXCEPT !.prompt = "raised"])
    ELSE IF prompted.value = None
        THEN Return([w EXCEPT !.prompt = "declined"], "false", "no_config")
    ELSE [w EXCEPT !.pc = "save_open", !.config = prompted.value, !.prompt = "selected"]

\* _ensure_config, second half: the win32 view and the user's choice are inputs
PromptForConfig(r) ==
    /\ worker[r].pc = "prompt"
    /\ \E view \in BackendViews :
         \E choice \in Choices(Candidates(view.windows, {}, <<>>)) :
           worker' = [worker EXCEPT ![r] =
                         AfterPrompt(@, _prompt_for_config(view, choice))]
    /\ UNCHANGED <<file, afterQueue, uiVars>>

\* what open(path, "w") leaves in the file when it succeeds
Opened(f) == EmptyFile

\* _save_config, path.write_text: open(path, "w") truncates the file, or raises
SaveOpen(r) ==
    /\ worker[r].pc = "save_open"
    /\ \/ /\ file' = Opened(file)
          /\ worker' = [worker EXCEPT ![r] =
                 [@ EXCEPT !.pc = "save_write", !.writes = Bump(@, 1)]]
       \/ /\ file' = file
          /\ worker' = [worker EXCEPT ![r] = Raise(@)]
    /\ UNCHANGED <<afterQueue, uiVars>>

\* what write() and close() leave in the file: the JSON text of the record, or
\* on an I/O error nothing or a prefix of it
WriteOutcomes(config) ==
    {[raised |-> FALSE, content |-> RecordFile(config)],
     [raised |-> TRUE, content |-> EmptyFile],
     [raised |-> TRUE, content |-> TruncatedFile]}

\* _save_config, path.write_text: write the JSON text and close
SaveWrite(r) ==
    /\ worker[r].pc = "save_write"
    /\ \E out \in WriteOutcomes(worker[r].config) :
         /\ file' = out.content
         /\ worker' = [worker EXCEPT ![r] =
                IF out.raised THEN Raise(@) ELSE [@ EXCEPT !.pc = "resolve"]]
    /\ UNCHANGED <<afterQueue, uiVars>>

\* save_in_word_dialog after _get_pid: `if not pid: return False`; t0 = time.time()
AfterGetPid(w, pid) ==
    LET seen == [w EXCEPT !.resolved = IF pid.found THEN "pid" ELSE "none"]
    IN  IF NotPid(pid) THEN Return(seen, "false", "no_pid")
        ELSE [seen EXCEPT !.pc = "check", !.pid = pid, !.elapsed = 0]

\* pid = _get_pid(config) on the windows w.seen, and the lines that follow it
Resolved(w) ==
    LET left == [w EXCEPT !.seen = None]
    IN  IF GetPidRaises(w.config, w.seen)
        THEN Raise([left EXCEPT !.resolved = "raised"])
        ELSE AfterGetPid(left, _get_pid(w.config, w.seen))

\* pid = _get_pid(config): what the two backends enumerate is an input
GetPid(r) ==
    /\ worker[r].pc = "resolve"
    /\ \E snap \in DesktopSnapshots :
         worker' = [worker EXCEPT ![r] = Resolved([@ EXCEPT !.seen = snap])]
    /\ UNCHANGED <<file, afterQueue, uiVars>>

\* _get_pid in two steps, first the calls Desktop(backend=be).windows()
DesktopWindows(r) ==
    /\ worker[r].pc = "resolve"
    /\ \E snap \in DesktopSnapshots :
         worker' = [worker EXCEPT ![r] = [@ EXCEPT !.pc = "match", !.seen = snap]]
    /\ UNCHANGED <<file, afterQueue, uiVars>>

\* then the loops over the backends and their windows
MatchWindows(r) ==
    /\ worker[r].pc = "match"
    /\ worker' = [worker EXCEPT ![r] = Resolved(@)]
    /\ UNCHANGED <<file, afterQueue, uiVars>>

\* LoopExit as `raise TimeoutError` would make it
LoopExitRaises(w) ==
    [w EXCEPT !.pc = "raised", !.ret = "raised", !.exit = "timeout",
              !.config = None, !.pid = NoPid, !.elapsed = 0]

\* `return False` after the while loop
LoopExit(w) == Return(w, "false", "timeout")

\* TimeLeft as `<=` would make it
TimeLeftInclusive(w) == w.elapsed <= w.timeout

\* the loop condition time.time() - t0 < timeout
TimeLeft(w) == w.elapsed < w.timeout

\* while time.time() - t0 < timeout: ... return False
LoopCheck(r) ==
    /\ worker[r].pc = "check"
    /\ worker' = [worker EXCEPT ![r] =
           IF TimeLeft(@)
           THEN [@ EXCEPT !.pc = "s1_uia", !.iters = Bump(@, 1)]
           ELSE LoopExit(@)]
    /\ UNCHANGED <<file, afterQueue, uiVars>>

\* the position after strategy 1 on one backend found nothing or swallowed an exception
AfterS1(pc) == IF pc = "s1_uia" THEN "s1_win32" ELSE "s2"

\* what d.window(class_name="#32770", process=pid) with exists() and is_visible()
\* gives: an exception, no such window, a window not visible, a visible dialog
DialogLookups == {"raise", "absent", "hidden", "visible"}

\* IsHit as it would be with `if dlg.exists():`
IsHitExistsOnly(look) == look \in {"hidden", "visible"}

\* `if dlg.exists() and dlg.is_visible():` of strategy 1
IsHit(look) == look = "visible"

\* AfterFill as it would be if the interactor were called without `return`
AfterFillDropsValue(w, done) ==
    [w EXCEPT !.pc = AfterS1(@),
              !.hit = @ \cup {1},
              !.handed = @ \cup {1},
              !.hits = Bump(@, 1),
              !.typed = Bump(@, done.typed),
              !.clicks = Bump(@, done.clicks),
              !.enters = Bump(@, done.enters),
              !.filled = Bump(@, IF done.raised THEN 0 ELSE 1)]

\* `return _fill_and_save_win32(dlg, path)` inside the try of strategy 1: the
\* interactor's value is returned, what it raises is swallowed and the loop goes on
AfterFill(w, done) ==
    LET acted == [w EXCEPT !.hit = @ \cup {1},
                           !.handed = @ \cup {1},
                           !.hits = Bump(@, 1),
                           !.typed = Bump(@, done.typed),
                           !.clicks = Bump(@, done.clicks),
                           !.enters = Bump(@, done.enters),
                           !.filled = Bump(@, IF done.raised THEN 0 ELSE 1)]
    IN  IF done.raised THEN [acted EXCEPT !.pc = AfterS1(@)]
        ELSE Return(acted, IF done.value THEN "true" ELSE "false", "hit")

\* strategy 1 on one backend: Desktop(backend=be) outside the try, the lookup and
\* the interactor inside it
Strategy1(r) ==
    /\ worker[r].pc \in {"s1_uia", "s1_win32"}
    /\ \/ \* Desktop(backend=be) raises: nothing catches it
          worker' = [worker EXCEPT ![r] = Raise(@)]
       \/ \* no visible dialog, or the lookup raised: except Exception: pass
          \E look \in {l \in DialogLookups : ~IsHit(l)} :
            worker' = [worker EXCEPT ![r].pc = AfterS1(@)]
       \/ \* a visible dialog: print the hit, run the interactor
          \E look \in {l \in DialogLookups : IsHit(l)}, done \in FillOutcomes :
            worker' = [worker EXCEPT ![r] = AfterFill(@, done)]
    /\ UNCHANGED <<file, afterQueue, uiVars>>

\* the names the module get_save_dialog binds
ModuleNames ==
    {"_config_path", "_derive_keyword", "_load_config", "_save_config",
     "_show_window_selection_dialog", "_prompt_for_config", "_ensure_config",
     "_get_pid", "save_in_word_dialog", "_fill_and_save_win32"}

\* what the call `callee(w, path)` can give: NameError when the module does not
\* bind the name, else what the interactor does
CallOutcomes(callee) ==
    IF callee \notin ModuleNames THEN {[name_error |-> TRUE, done |-> FillResult(TRUE, 0, 0, 0)]}
    ELSE {[name_error |-> FALSE, done |-> done] : done \in FillOutcomes}

\* `return callee(w, path)` inside the try of strategy k (2 or 3), after the hit
\* was printed: a NameError is swallowed by `except Exception: pass` like what
\* the interactor raises; `next` is the position behind the block
AfterHit(w, k, next, out) ==
    IF out.name_error THEN [w EXCEPT !.pc = next, !.hit = @ \cup {k}]
    ELSE LET done == out.done
             acted == [w EXCEPT !.hit = @ \cup {k},
                                !.handed = @ \cup {k},
                                !.typed = Bump(@, done.typed),
                                !.clicks = Bump(@, done.clicks),
                                !.enters = Bump(@, done.enters),
                                !.filled = Bump(@, IF done.raised THEN 0 ELSE 1)]
         IN  IF done.raised THEN [acted EXCEPT !.pc = next]
             ELSE Return(acted, IF done.value THEN "true" ELSE "false", "hit")

\* strategy 2: the whole block is inside try/except. A window of the process with
\* a Speichern/Save title ends in `return _fill_and_save(w, path)`
Strategy2(r) ==
    /\ worker[r].pc = "s2"
    /\ \/ \* Desktop or windows() raised, or no window of the process matches
          \E found \in {"raise", "no_match"} :
            worker' = [worker EXCEPT ![r].pc = "s3"]
       \/ \* a match: print the hit, call _fill_and_save
          \E out \in CallOutcomes("_fill_and_save") :
            worker' = [worker EXCEPT ![r] = AfterHit(@, 2, "s3", out)]
    /\ UNCHANGED <<file, afterQueue, uiVars>>

\* strategy 3: the same for the top-level parent of the CFD helper window
Strategy3(r) ==
    /\ worker[r].pc = "s3"
    /\ \/ \* a call raised, no helper window, or its parent is not visible
          \E found \in {"raise", "absent", "parent_hidden"} :
            worker' = [worker EXCEPT ![r].pc = "sleep"]
       \/ \* the parent exists and is visible: print the hit, call _fill_and_save
          \E out \in CallOutcomes("_fill_and_save") :
            worker' = [worker EXCEPT ![r] = AfterHit(@, 3, "sleep", out)]
    /\ UNCHANGED <<file, afterQueue, uiVars>>

\* time.sleep(0.2): with the strategies, one or two poll intervals have passed at
\* the next loop check; the clock is not followed beyond the timeout
Sleep(r) ==
    /\ worker[r].pc = "sleep"
    /\ \E d \in {PollTicks, 2 * PollTicks} :
         worker' = [worker EXCEPT ![r] =
             [@ EXCEPT !.pc = "check", !.hit = {}, !.handed = {},
                       !.elapsed = Min(@ + d, worker[r].timeout)]]
    /\ UNCHANGED <<file, afterQueue, uiVars>>

----------------------------------------------------------------------------
(* The worker functions of main.py *)

MsgNotFound == "Speichern-Dialog wurde nicht gefunden."
MsgAccessError == "Fehler beim Zugriff auf den Speichern-Dialog: <exc>"

\* success and message as worker() of _trigger_otbiolab_save and of
\* _trigger_field_otbiolab_save and callback() of
\* _trigger_repeated_measurement_otbiolab_save compute them
WorkerResult(origin, ret) ==
    IF origin = "repeated"
    THEN [success |-> ret = "true",
          message |-> IF ret = "true" THEN "Datei gespeichert: <filename>"
                      ELSE IF ret = "raised" THEN "Fehler: <exc>"
                      ELSE "Timeout oder Fehler beim Speichern."]
    ELSE [success |-> ret = "true",
          message |-> IF ret = "true"
                          THEN (IF origin = "step" THEN "Dateiname uebergeben."
                                ELSE "Dateiname fuer '<label>' uebergeben.")
                      ELSE IF ret = "raised" THEN MsgAccessError
                      ELSE MsgNotFound]

\* CanPost as it would be if self.after were also called from inside the poll loop
CanPostEarly(w) == w.pc \in {"returned", "raised", "sleep"}

\* the worker function reaches self.after(0, ...) once save_in_word_dialog has
\* returned or its exception has been caught
CanPost(w) == w.pc \in {"returned", "raised"}

\* PostsOf as it would be without the except clause: an exception ends the thread
PostsOfUncaught(w) == IF w.ret = "raised" THEN 0 ELSE 1

\* how many callbacks the worker function schedules before it ends: the except
\* clause catches what save_in_word_dialog raises, self.after follows in every case
PostsOf(w) == 1

\* the arguments the scheduled lambda holds; exit is not among them: it records
\* which return statement of save_in_word_dialog the result comes from
Callback(r, w) ==
    LET res == WorkerResult(w.origin, w.ret)
    IN  [req |-> r, origin |-> w.origin, attempt |-> w.attempt,
         success |-> res.success, message |-> res.message, exit |-> w.exit]

RECURSIVE Repeat(_, _)
Repeat(x, n) == IF n = 0 THEN <<>> ELSE <<x>> \o Repeat(x, n - 1)

\* self.after(0, lambda: ...), the last statement of the worker function
WorkerPost(r) ==
    /\ worker[r].pc \in RunningPcs
    /\ CanPost(worker[r])
    /\ LET n == PostsOf(worker[r])
       IN  /\ afterQueue' = afterQueue \o Repeat(Callback(r, worker[r]), n)
           /\ worker' = [worker EXCEPT ![r] = [@ EXCEPT !.pc = "ended", !.posts = @ + n]]
    /\ UNCHANGED <<file, uiVars>>

----------------------------------------------------------------------------
(* The wizard: handlers and completion callbacks, run by the Tk main loop *)

\* the target path of request r; 0 is no path
PathOf(r) == r
NoPath == 0

Status(text, count) == [text |-> text, count |-> count]

\* trigger_allowed of _show_current_step: the step declares an otbiolab_template
\* and the interceptor module was imported
trigger_allowed == TRUE

\* what _show_current_step leaves in trigger_button
ShownTriggerButton == IF trigger_allowed THEN "normal" ELSE "disabled"

\* the button _show_current_step renders beside a template field and the button
\* _render_single_attempt renders for an attempt: ttk.Button(...) without a state
\* option, and no handler configures them afterwards
FieldButton == "normal"
AttemptButton == "normal"

\* _start_session: the first step is current, nothing is recorded
SessionStarted ==
    /\ current_step_index = 0
    /\ step_results = <<>>
    /\ session_finished = FALSE

\* StepResult(config=step, otbiolab_paths=..., field_otbiolab_files=...,
\* repeated_measurements=...): the copies _complete_step takes of the three lists
StepResult(index, paths, files, attempts) ==
    [step |-> index, otbiolab_paths |-> paths, field_otbiolab_files |-> files,
     repeated_measurements |-> attempts]

\* `existing` of _show_current_step: the recorded result of the step `index`
Existing(results, index) ==
    IF Len(results) > index THEN results[index + 1] ELSE None

\* the three lists after _show_current_step on the step `index`: the copies held by
\* the recorded result of that step if there is one, else what they were
Shown(results, index, paths, files, attempts) ==
    LET existing == Existing(results, index)
    IN  IF existing # None
        THEN [paths |-> existing.otbiolab_paths, files |-> existing.field_otbiolab_files,
              attempts |-> existing.repeated_measurements]
        ELSE [paths |-> paths, files |-> files, attempts |-> attempts]

\* _show_current_step with the lists as the caller left them: the lists, the
\* trigger button and the status line; next_button is not touched
ShowCurrentStep(results, index, paths, files, attempts) ==
    LET shown == Shown(results, index, paths, files, attempts)
    IN  /\ current_step_otbiolab_paths' = shown.paths
        /\ current_step_field_otbiolab_files' = shown.files
        /\ current_step_repeated_measurements' = shown.attempts
        /\ trigger_button' = ShownTriggerButton
        /\ status_var' = Status("", 0)

\* the request id the next thread gets
FreeRequests == {r \in DOMAIN worker : worker[r].pc = "idle"}
NextRequest == CHOOSE r \in FreeRequests : \A q \in FreeRequests : r <= q

\* _trigger_otbiolab_save, the command of trigger_button
TriggerOtbiolabSave ==
    /\ UiIdle
    /\ ~session_finished
    /\ trigger_button = "normal"
    /\ trigger_allowed
    /\ FreeRequests # {}
    /\ status_var' = Status("Uebergebe Dateiname an OTBioLab...", 0)
    /\ trigger_button' = "disabled"
    /\ next_button' = "disabled"
    /\ worker' = [worker EXCEPT ![NextRequest] =
                     [StartedWorker("step", 0) EXCEPT !.step = current_step_index]]
    /\ UNCHANGED <<file, afterQueue, current_step_otbiolab_paths,
                   current_step_field_otbiolab_files, current_step_repeated_measurements,
                   sessionVars>>

\* _trigger_field_otbiolab_save, the command of the button beside a template
\* field: file_number is the count of the files of the field plus one
TriggerFieldOtbiolabSave ==
    /\ UiIdle
    /\ ~session_finished
    /\ FreeRequests # {}
    /\ status_var' = Status("Uebergebe Dateiname fuer '<label>' an OTBioLab...", 0)
    /\ worker' = [worker EXCEPT ![NextRequest] =
                     [StartedWorker("field", 0)
                         EXCEPT !.step = current_step_index,
                                !.number = Len(current_step_field_otbiolab_files) + 1]]
    /\ UNCHANGED <<file, afterQueue, trigger_button, next_button,
                   current_step_otbiolab_paths, current_step_field_otbiolab_files,
                   current_step_repeated_measurements, sessionVars>>

\* _add_new_attempt: append an empty attempt, then _show_current_step
AddNewAttempt ==
    /\ UiIdle
    /\ ~session_finished
    /\ Len(current_step_repeated_measurements) < MaxAttempts
    /\ ShowCurrentStep(step_results, current_step_index, current_step_otbiolab_paths,
                       current_step_field_otbiolab_files,
                       Append(current_step_repeated_measurements,
                              [otbiolab_file |-> NoPath]))
    /\ UNCHANGED <<file, worker, afterQueue, next_button, sessionVars>>

\* _trigger_repeated_measurement_otbiolab_save, the command of the button of a
\* rendered attempt (attempt_idx counts from 1 here, from 0 in the code)
TriggerRepeatedMeasurementOtbiolabSave(attempt_idx) ==
    /\ UiIdle
    /\ ~session_finished
    /\ attempt_idx \in 1..Len(current_step_repeated_measurements)
    /\ FreeRequests # {}
    /\ status_var' = Status("Warte auf OTBioLab Speichern-Dialog fuer Versuch...", 0)
    /\ worker' = [worker EXCEPT ![NextRequest] =
                     [StartedWorker("repeated", attempt_idx)
                         EXCEPT !.step = current_step_index]]
    /\ UNCHANGED <<file, afterQueue, trigger_button, next_button,
                   current_step_otbiolab_paths, current_step_field_otbiolab_files,
                   current_step_repeated_measurements, sessionVars>>

\* Recorded as it would be if _complete_step always appended
RecordedAppends(results, index, result) == Append(results, result)

\* step_results after _complete_step: the entry of the step is replaced if the
\* step was recorded before, else the result is appended
Recorded(results, index, result) ==
    IF Len(results) > index THEN [results EXCEPT ![index + 1] = result]
    ELSE Append(results, result)

\* _complete_step, the command of next_button ("Weiter"), with valid field values:
\* record the step, then show the next step with empty lists or finish the session
CompleteStep ==
    /\ UiIdle
    /\ ~session_finished
    /\ next_button = "normal"
    /\ LET result == StepResult(current_step_index, current_step_otbiolab_paths,
                                current_step_field_otbiolab_files,
                                current_step_repeated_measurements)
           results == Recorded(step_results, current_step_index, result)
       IN  /\ step_results' = results
           /\ IF current_step_index + 1 < NumSteps
              THEN /\ current_step_index' = current_step_index + 1
                   /\ ShowCurrentStep(results, current_step_index + 1, <<>>, <<>>, <<>>)
                   /\ UNCHANGED session_finished
              ELSE /\ session_finished' = TRUE
                   /\ UNCHANGED <<current_step_index, trigger_button, status_var,
                                  current_step_otbiolab_paths,
                                  current_step_field_otbiolab_files,
                                  current_step_repeated_measurements>>
    /\ UNCHANGED <<file, worker, afterQueue, next_button>>

\* _back_to_previous_step, the command of back_button ("Zurueck")
BackToPreviousStep ==
    /\ UiIdle
    /\ ~session_finished
    /\ current_step_index > 0
    /\ current_step_index' = current_step_index - 1
    /\ ShowCurrentStep(step_results, current_step_index - 1, current_step_otbiolab_paths,
                       current_step_field_otbiolab_files,
                       current_step_repeated_measurements)
    /\ UNCHANGED <<file, worker, afterQueue, next_button, step_results, session_finished>>

\* what is left of a request once its callback has run
DoneWorker(w) == [IdleWorker EXCEPT !.pc = "done", !.posts = w.posts]

\* _on_interceptor_finished(success, message, path)
OnInterceptorFinished(c) ==
    /\ c.origin = "step"
    /\ trigger_button' = "normal"
    /\ next_button' = "normal"
    /\ current_step_otbiolab_paths' =
           IF c.success THEN Append(current_step_otbiolab_paths, PathOf(c.req))
           ELSE current_step_otbiolab_paths
    /\ status_var' =
           IF c.success THEN Status(c.message, Len(current_step_otbiolab_paths'))
           ELSE Status(c.message, 0)
    /\ UNCHANGED <<current_step_field_otbiolab_files, current_step_repeated_measurements>>

\* _on_field_interceptor_finished(success, message, path, field_id); a success
\* ends in _show_current_step, which resets trigger_button and clears status_var
OnFieldInterceptorFinished(c) ==
    /\ c.origin = "field"
    /\ IF c.success
       THEN ShowCurrentStep(step_results, current_step_index, current_step_otbiolab_paths,
                            Append(current_step_field_otbiolab_files, PathOf(c.req)),
                            current_step_repeated_measurements)
       ELSE /\ status_var' = Status(c.message, 0)
            /\ UNCHANGED <<trigger_button, current_step_otbiolab_paths,
                           current_step_field_otbiolab_files,
                           current_step_repeated_measurements>>
    /\ UNCHANGED next_button

\* _on_repeated_measurement_interceptor_finished(success, message, path, field_id,
\* attempt_idx); a success rebuilds the step with _show_current_step and then
\* sets the status line
OnRepeatedMeasurementInterceptorFinished(c) ==
    /\ c.origin = "repeated"
    /\ IF c.success
       THEN LET shown == Shown(step_results, current_step_index,
                               current_step_otbiolab_paths,
                               current_step_field_otbiolab_files,
                               IF c.attempt \in 1..Len(current_step_repeated_measurements)
                               THEN [current_step_repeated_measurements
                                        EXCEPT ![c.attempt].otbiolab_file = PathOf(c.req)]
                               ELSE current_step_repeated_measurements)
            IN  /\ current_step_otbiolab_paths' = shown.paths
                /\ current_step_field_otbiolab_files' = shown.files
                /\ current_step_repeated_measurements' = shown.attempts
                /\ trigger_button' = ShownTriggerButton
       ELSE UNCHANGED <<trigger_button, current_step_otbiolab_paths,
                        current_step_field_otbiolab_files,
                        current_step_repeated_measurements>>
    /\ status_var' = Status(c.message, 0)
    /\ UNCHANGED next_button

\* RunCallback as it would be if the worker function called the handler itself
\* instead of self.after(0, ...)
RunCallbackFromThread ==
    /\ \E r \in Requests :
         /\ CanPost(worker[r])
         /\ LET c == Callback(r, worker[r])
            IN  \/ OnInterceptorFinished(c)
                \/ OnFieldInterceptorFinished(c)
                \/ OnRepeatedMeasurementInterceptorFinished(c)
         /\ worker' = [worker EXCEPT ![r] = DoneWorker(@)]
    /\ UNCHANGED <<file, afterQueue, sessionVars>>

\* the Tk main loop runs the oldest scheduled callback
RunCallback ==
    /\ UiIdle
    /\ afterQueue # <<>>
    /\ LET c == Head(afterQueue)
       IN  /\ \/ OnInterceptorFinished(c)
              \/ OnFieldInterceptorFinished(c)
              \/ OnRepeatedMeasurementInterceptorFinished(c)
           /\ worker' = [worker EXCEPT ![c.req] = DoneWorker(@)]
    /\ afterQueue' = Tail(afterQueue)
    /\ UNCHANGED <<file, sessionVars>>

----------------------------------------------------------------------------
(* Specification *)

\* identities a record file may hold: the one a selection of WApp stores, and one
\* no window of the desktop matches
StoredIdentities ==
    {Identity("OTBioLab", <<"L", "a", "b">>), Identity("Notepad", <<"x">>)}

\* identities of a record file that was edited by hand: json.loads and str() accept
\* empty strings as the values of both keys
EditedIdentities == {Identity("", <<"L", "a", "b">>), Identity("", <<>>)}

\* what the working directory may hold when the session starts
InitialFiles ==
    {NoFile,
     FileContent("unreadable", {}, "", <<>>),
     FileContent("undecodable", {}, "", <<>>),
     FileContent("not_json", {}, "", <<>>),
     FileContent("array", {}, "", <<>>),
     FileContent("object", {}, "", <<>>),
     FileContent("object", {"class_name"}, "OTBioLab", <<>>),
     FileContent("object", {"keyword"}, "", <<"L", "a", "b">>)}
    \cup {RecordFile(i) : i \in StoredIdentities \cup EditedIdentities}

\* a session was started and its first step is shown (_start_session)
Init ==
    /\ file \in InitialFiles
    /\ worker = [r \in Requests |-> IdleWorker]
    /\ afterQueue = <<>>
    /\ SessionStarted
    /\ trigger_button = ShownTriggerButton
    /\ next_button = "normal"
    /\ status_var = Status("", 0)
    /\ current_step_otbiolab_paths = <<>>
    /\ current_step_field_otbiolab_files = <<>>
    /\ current_step_repeated_measurements = <<>>

\* one step of save_in_word_dialog
AutomationStep(r) ==
    \/ LoadConfig(r)
    \/ PromptForConfig(r)
    \/ SaveOpen(r)
    \/ SaveWrite(r)
    \/ GetPid(r)
    \/ LoopCheck(r)
    \/ Strategy1(r)
    \/ Strategy2(r)
    \/ Strategy3(r)
    \/ Sleep(r)

\* one step of a worker thread
WorkerStep(r) ==
    \/ AutomationStep(r)
    \/ WorkerPost(r)

Next ==
    \/ TriggerOtbiolabSave
    \/ TriggerFieldOtbiolabSave
    \/ AddNewAttempt
    \/ \E a \in 1..MaxAttempts : TriggerRepeatedMeasurementOtbiolabSave(a)
    \/ RunCallback
    \/ \E r \in Requests : WorkerStep(r)

Spec == Init /\ [][Next]_vars

\* the operating system schedules every worker thread, and the backend calls return
FairSpec == Spec /\ \A r \in Requests : WF_vars(WorkerStep(r))

\* timeouts a caller of save_in_word_dialog(path, timeout) may pass that the
\* wizard does not: 0, and the positive ones below one poll interval
DirectTimeouts == 0..(PollTicks - 1)

\* a plain call of save_in_word_dialog with the timeout `t`
StartedDirect(t) ==
    [IdleWorker EXCEPT !.pc = "load", !.origin = "direct", !.ctx = "direct",
                       !.timeout = t]

DirectInit ==
    /\ file \in InitialFiles
    /\ \E t \in DirectTimeouts : worker = [r \in Requests |-> StartedDirect(t)]
    /\ afterQueue = <<>>
    /\ SessionStarted
    /\ trigger_button = ShownTriggerButton
    /\ next_button = "normal"
    /\ status_var = Status("", 0)
    /\ current_step_otbiolab_paths = <<>>
    /\ current_step_field_otbiolab_files = <<>>
    /\ current_step_repeated_measurements = <<>>

DirectNext == \E r \in Requests : AutomationStep(r)

\* save_in_word_dialog called with a timeout below one poll interval
DirectSpec == DirectInit /\ [][DirectNext]_vars

\* identities _get_pid is called with: those of a record file, and the one a
\* selection of WOther stores
ResolverIdentities ==
    StoredIdentities \cup EditedIdentities \cup {on_select(WOther)}

\* save_in_word_dialog at `pid = _get_pid(config)` with the identity c
ResolvingWorker(c) ==
    [IdleWorker EXCEPT !.pc = "resolve", !.origin = "direct", !.ctx = "direct",
                       !.timeout = Timeout("step"), !.config = c, !.loaded = "config"]

ResolverInit ==
    /\ \E c \in ResolverIdentities :
         /\ file = RecordFile(c)
         /\ worker = [r \in Requests |-> ResolvingWorker(c)]
    /\ afterQueue = <<>>
    /\ SessionStarted
    /\ trigger_button = ShownTriggerButton
    /\ next_button = "normal"
    /\ status_var = Status("", 0)
    /\ current_step_otbiolab_paths = <<>>
    /\ current_step_field_otbiolab_files = <<>>
    /\ current_step_repeated_measurements = <<>>

ResolverNext == \E r \in Requests : DesktopWindows(r) \/ MatchWindows(r)

\* _get_pid applied to every identity and every pair of backend views
ResolverSpec == ResolverInit /\ [][ResolverNext]_vars

\* strategy 1 in two steps, first Desktop(backend=be) and the lookup of the
\* "#32770" window of the process: what it reports, and what the window answers
LookupDialog(r) ==
    /\ worker[r].pc \in {"s1_uia", "s1_win32"}
    /\ \/ worker' = [worker EXCEPT ![r] = Raise(@)]
       \/ \E look \in DialogLookups :
            \E e \in (IF IsHit(look) THEN FillEnvs ELSE {None}) :
              worker' = [worker EXCEPT ![r] =
                            [@ EXCEPT !.pc = "fill",
                                      !.seen = [be |-> worker[r].pc, look |-> look,
                                                dlg |-> e]]]
    /\ UNCHANGED <<file, afterQueue, uiVars>>

\* the rest of strategy 1 on the lookup w.seen: the test of the window, the
\* interactor on a hit, `except Exception: pass`
Acquired(w) ==
    LET back == [w EXCEPT !.pc = w.seen.be, !.seen = None]
    IN  IF IsHit(w.seen.look) THEN AfterFill(back, _fill_and_save_win32(w.seen.dlg))
        ELSE [back EXCEPT !.pc = AfterS1(@)]

\* then the test of the window and the interactor
FillAndSave(r) ==
    /\ worker[r].pc = "fill"
    /\ worker' = [worker EXCEPT ![r] = Acquired(@)]
    /\ UNCHANGED <<file, afterQueue, uiVars>>

\* the worker function of `origin` at strategy 1 of the first poll iteration
PollingWorker(origin) ==
    [StartedWorker(origin, IF origin = "repeated" THEN 1 ELSE 0)
        EXCEPT !.pc = "s1_uia", !.config = Identity("OTBioLab", <<"L", "a", "b">>),
               !.loaded = "config", !.resolved = "pid",
               !.pid = [found |-> TRUE, pid |-> WApp.pid], !.iters = 1]

InteractorInit ==
    /\ file = RecordFile(Identity("OTBioLab", <<"L", "a", "b">>))
    /\ \E origin \in Origins : worker = [r \in Requests |-> PollingWorker(origin)]
    /\ afterQueue = <<>>
    /\ SessionStarted
    /\ trigger_button = ShownTriggerButton
    /\ next_button = "normal"
    /\ status_var = Status("", 0)
    /\ current_step_otbiolab_paths = <<>>
    /\ current_step_field_otbiolab_files = <<>>
    /\ current_step_repeated_measurements =
           IF \E r \in Requests : worker[r].origin = "repeated"
           THEN <<[otbiolab_file |-> NoPath]>> ELSE <<>>

InteractorNext ==
    \E r \in Requests : LookupDialog(r) \/ FillAndSave(r) \/ Strategy2(r) \/ Strategy3(r)

\* the strategies of one poll iteration on every dialog the two backends can report
InteractorSpec == InteractorInit /\ [][InteractorNext]_vars

\* a window the desktop lists beside WApp whose class and title differ from
\* WApp's in case and padding only
WAppCase ==
    Window("otbiolab", <<" ", "o", "t", " ", "-", " ", "l", "a", "b">>, 43, TRUE, FALSE)
\* a window that is not visible
WHidden == Window("OTBioLab", <<"L", "a", "b">>, 44, FALSE, FALSE)

SelectionWindows == Windows \cup {WAppCase, WHidden}

\* what the win32 backend gives to _prompt_for_config
SelectionViews ==
    {[state |-> "ctor_raise", windows |-> <<>>], [state |-> "enum_raise", windows |-> <<>>]}
    \cup {[state |-> "ok", windows |-> ws] : ws \in SeqsUpTo(SelectionWindows, MaxWindows)}

\* _prompt_for_config in two steps, first Desktop(backend="win32").windows()
EnumerateWindows(r) ==
    /\ worker[r].pc = "prompt"
    /\ \E view \in SelectionViews :
         worker' = [worker EXCEPT ![r] = [@ EXCEPT !.pc = "choose", !.seen = view]]
    /\ UNCHANGED <<file, afterQueue, uiVars>>

\* then the loop over the windows, the selection dialog and the user's choice
SelectWindow(r) ==
    /\ worker[r].pc = "choose"
    /\ \E choice \in Choices(Candidates(worker[r].seen.windows, {}, <<>>)) :
         worker' = [worker EXCEPT ![r] =
                       AfterPrompt([@ EXCEPT !.seen = None],
                                   _prompt_for_config(worker[r].seen, choice))]
    /\ UNCHANGED <<file, afterQueue, uiVars>>

\* record files _load_config reads as None
UnloadableFiles == {f \in InitialFiles : _load_config(f).value = None}

\* save_in_word_dialog at `config = _prompt_for_config()`
PromptingWorker ==
    [IdleWorker EXCEPT !.pc = "prompt", !.origin = "direct", !.ctx = "direct",
                       !.timeout = Timeout("step"), !.loaded = "none"]

SelectorInit ==
    /\ file \in UnloadableFiles
    /\ worker = [r \in Requests |-> PromptingWorker]
    /\ afterQueue = <<>>
    /\ SessionStarted
    /\ trigger_button = ShownTriggerButton
    /\ next_button = "normal"
    /\ status_var = Status("", 0)
    /\ current_step_otbiolab_paths = <<>>
    /\ current_step_field_otbiolab_files = <<>>
    /\ current_step_repeated_measurements = <<>>

SelectorNext == \E r \in Requests : EnumerateWindows(r) \/ SelectWindow(r)

\* _prompt_for_config applied to every list of windows the backend can give
SelectorSpec == SelectorInit /\ [][SelectorNext]_vars

\* the characters of the titles: letters, the blank, hyphen, en dash and em dash
TitleChars == {"a", "b", " ", "-", "ndash", "mdash"}

\* the titles on_select may find in the selected entry
Titles == SeqsUpTo(TitleChars, MaxTitle)

\* _show_window_selection_dialog at on_select, with the entry of title t selected
SelectingWorker(t) ==
    [IdleWorker EXCEPT !.pc = "select", !.origin = "direct", !.ctx = "direct",
                       !.timeout = Timeout("step"), !.loaded = "none",
                       !.seen = [title |-> t, class_name |-> "OTBioLab"]]

\* on_select and the return of _prompt_for_config with the identity it built
OnSelect(r) ==
    /\ worker[r].pc = "select"
    /\ worker' = [worker EXCEPT ![r] =
                     AfterPrompt(@, [raised |-> FALSE,
                                     value |-> on_select(worker[r].seen)])]
    /\ UNCHANGED <<file, afterQueue, uiVars>>

KeywordInit ==
    /\ file = NoFile
    /\ \E t \in Titles : worker = [r \in Requests |-> SelectingWorker(t)]
    /\ afterQueue = <<>>
    /\ SessionStarted
    /\ trigger_button = ShownTriggerButton
    /\ next_button = "normal"
    /\ status_var = Status("", 0)
    /\ current_step_otbiolab_paths = <<>>
    /\ current_step_field_otbiolab_files = <<>>
    /\ current_step_repeated_measurements = <<>>

KeywordNext == \E r \in Requests : OnSelect(r)

\* _derive_keyword applied to every title
KeywordSpec == KeywordInit /\ [][KeywordNext]_vars

\* the requests of a session whose handoffs may overlap
WizardRequests == 1..MaxRequests

\* what a call of save_in_word_dialog gives to the worker function
CallResults == {"true", "false", "raised"}

\* the worker function as one step: save_in_word_dialog(str(target_path),
\* timeout=...) returns True, returns False or raises, and self.after(0, ...)
\* schedules the callback with the result
WorkerFunction(r) ==
    /\ worker[r].pc = "load"
    /\ \E out \in CallResults :
         LET called == IF out = "raised" THEN Raise(worker[r])
                       ELSE Return(worker[r], out, IF out = "true" THEN "hit" ELSE "timeout")
             n == PostsOf(called)
         IN  /\ afterQueue' = afterQueue \o Repeat(Callback(r, called), n)
             /\ worker' = [worker EXCEPT ![r] =
                              [called EXCEPT !.pc = "ended", !.posts = @ + n]]
    /\ UNCHANGED <<file, uiVars>>

WizardInit ==
    /\ file = RecordFile(Identity("OTBioLab", <<"L", "a", "b">>))
    /\ worker = [r \in WizardRequests |-> IdleWorker]
    /\ afterQueue = <<>>
    /\ SessionStarted
    /\ trigger_button = ShownTriggerButton
    /\ next_button = "normal"
    /\ status_var = Status("", 0)
    /\ current_step_otbiolab_paths = <<>>
    /\ current_step_field_otbiolab_files = <<>>
    /\ current_step_repeated_measurements = <<>>

WizardNext ==
    \/ TriggerOtbiolabSave
    \/ TriggerFieldOtbiolabSave
    \/ CompleteStep
    \/ BackToPreviousStep
    \/ RunCallback
    \/ \E r \in WizardRequests : WorkerFunction(r)

\* the wizard from _start_session on: navigation between the steps, step-level
\* and field-level handoff requests that overlap, and their completion callbacks
WizardSpec == WizardInit /\ [][WizardNext]_vars

----------------------------------------------------------------------------
(* Claims *)

QueuedFor(r) == Cardinality({i \in 1..Len(afterQueue) : afterQueue[i].req = r})

\* the paths the wizard has recorded
RecordedPaths ==
    {current_step_otbiolab_paths[i] : i \in 1..Len(current_step_otbiolab_paths)}
    \cup {current_step_field_otbiolab_files[i] :
            i \in 1..Len(current_step_field_otbiolab_files)}
    \cup {current_step_repeated_measurements[i].otbiolab_file :
            i \in 1..Len(current_step_repeated_measurements)}

\* C1: every request schedules its completion callback exactly once: never more
\* than one self.after call, none while the worker function runs, and exactly one
\* when the thread has ended, whether save_in_word_dialog returned or raised.
CallbackExactlyOnce ==
    \A r \in Requests :
        /\ worker[r].pc \in RunningPcs \cup {"idle"} =>
               worker[r].posts = 0 /\ QueuedFor(r) = 0
        /\ worker[r].pc = "ended" => worker[r].posts = 1 /\ QueuedFor(r) = 1
        /\ worker[r].pc = "done" => worker[r].posts = 1 /\ QueuedFor(r) = 0

\* the thread of a request whose save_in_word_dialog raised has ended with its
\* callback scheduled
CallbackAfterRaise ==
    \E r \in Requests :
        worker[r].pc = "ended" /\ worker[r].ret = "raised" /\ worker[r].posts = 1

\* C2: while a request is in flight its automation runs on the worker thread and
\* the Tk main loop is free to run another handler.
NonBlocking ==
    \A r \in Requests :
        worker[r].pc \in RunningPcs =>
            /\ worker[r].ctx = "thread"
            /\ UiIdle
            /\ Len(current_step_repeated_measurements) < MaxAttempts =>
                   ENABLED AddNewAttempt

\* a step-level request sleeps in the poll loop after the main loop has run
\* _add_new_attempt, which cleared the status line the trigger had set
HandlerRanDuringPoll ==
    \E r \in Requests :
        /\ worker[r].pc = "sleep"
        /\ worker[r].origin = "step"
        /\ Len(current_step_repeated_measurements) = 1
        /\ status_var = Status("", 0)

\* C3: a callback is scheduled only for a request whose save_in_word_dialog has
\* returned or raised, it carries that result, and while the worker function runs
\* the wizard holds no path of the request.
ResultAfterAutomation ==
    /\ \A i \in 1..Len(afterQueue) :
           LET c == afterQueue[i]
           IN  /\ worker[c.req].pc = "ended"
               /\ worker[c.req].ret \in {"true", "false", "raised"}
               /\ c.success = (worker[c.req].ret = "true")
    /\ \A r \in Requests :
           worker[r].pc \in RunningPcs \cup {"ended"} => PathOf(r) \notin RecordedPaths

\* a successful result waits in the queue of the main loop
SuccessQueued ==
    \E i \in 1..Len(afterQueue) :
        afterQueue[i].success /\ worker[afterQueue[i].req].typed = 1

\* C4: a loop check at which the elapsed time is not below the timeout returns
\* False as an ordinary result, and every request that entered the poll loop
\* leaves save_in_word_dialog.
TimeoutReturnsFalse ==
    /\ [][\A r \in Requests :
            (/\ worker[r].pc = "check"
             /\ worker[r].elapsed >= Timeout(worker[r].origin)
             /\ worker'[r] # worker[r])
            => (/\ worker'[r].pc = "returned"
                /\ worker'[r].ret = "false"
                /\ worker'[r].exit = "timeout")]_vars
    /\ \A r \in Requests :
           (worker[r].pc = "check") ~> (worker[r].pc \notin AutomationPcs)

\* a request timed out after polling without any hit
TimedOutWithoutHit ==
    \E r \in Requests :
        /\ worker[r].pc = "returned"
        /\ worker[r].exit = "timeout"
        /\ worker[r].iters >= 2
        /\ worker[r].hits = 0

\* C5, as claimed: once strategy 1 has reported a visible dialog of the process,
\* the request ends with success.
VisibleDialogSucceeds ==
    \A r \in Requests :
        worker[r].hits > 0 /\ worker[r].pc \in {"returned", "raised", "ended"}
            => worker[r].ret = "true"

\* C5, amended: once the interactor has completed on a reported dialog without
\* raising, save_in_word_dialog has returned True and the callback carries success.
CompletedInteractorSucceeds ==
    \A r \in Requests :
        worker[r].filled > 0 =>
            /\ worker[r].pc \in {"returned", "ended"}
            /\ worker[r].ret = "true"
            /\ \A i \in 1..Len(afterQueue) :
                   afterQueue[i].req = r => afterQueue[i].success

\* the dialog was reported at the second poll iteration, the interactor completed
\* and the success is scheduled
SucceededAtSecondPoll ==
    \E r \in Requests :
        /\ worker[r].pc = "ended"
        /\ worker[r].filled = 1
        /\ worker[r].iters = 2
        /\ QueuedFor(r) = 1

\* C6: when _get_pid found no window, save_in_word_dialog returns False and the
\* request has run no poll iteration, no interactor, no keystroke and no click.
NoProcessNoPolling ==
    \A r \in Requests :
        worker[r].resolved = "none" =>
            /\ worker[r].pc \in {"returned", "ended"}
            /\ worker[r].ret = "false"
            /\ worker[r].iters = 0
            /\ worker[r].hits = 0
            /\ worker[r].typed = 0
            /\ worker[r].clicks = 0
            /\ worker[r].enters = 0

\* a persisted identity was loaded and no window matched it
LoadedIdentityUnresolved ==
    \E r \in Requests :
        /\ worker[r].loaded = "config"
        /\ worker[r].resolved = "none"
        /\ worker[r].pc = "returned"

\* C7: without a valid record the request runs the interactive selection; when no
\* identity comes out of it the request fails, writes no record, and neither
\* resolves nor polls.
DeclinedSelectionFails ==
    \A r \in Requests :
        /\ worker[r].loaded = "none" /\ worker[r].pc # "prompt" =>
               worker[r].prompt # "pending"
        /\ worker[r].prompt = "declined" =>
               /\ worker[r].pc \in {"returned", "ended"}
               /\ worker[r].ret = "false"
               /\ worker[r].writes = 0
               /\ _load_config(file).value = None
               /\ worker[r].resolved = "pending"
               /\ worker[r].iters = 0
               /\ worker[r].hits = 0

\* the selection was declined and the failure is scheduled
DeclinedAndReported ==
    \E r \in Requests :
        /\ worker[r].prompt = "declined"
        /\ worker[r].pc = "ended"
        /\ QueuedFor(r) = 1

\* the return statements of save_in_word_dialog that report a failure
FailureExits == {"no_config", "no_pid", "timeout"}

\* the failure causes after which the worker function of `origin` delivers `message`
CausesOf(origin, message) ==
    {e \in FailureExits : WorkerResult(origin, "false").message = message}

\* C8: the message of a failed result identifies its cause: no other failure
\* cause yields the same message.
FailureMessageIdentifiesCause ==
    \A i \in 1..Len(afterQueue) :
        LET c == afterQueue[i]
        IN  ~c.success /\ c.exit \in FailureExits =>
                CausesOf(c.origin, c.message) = {c.exit}

\* a record file that is a JSON object holding both keys
IsValidRecord(f) == f.kind = "object" /\ {"class_name", "keyword"} \subseteq f.has

\* C9: whatever the record file holds, _load_config does not raise, and it gives
\* an identity exactly when the file is a JSON object holding both keys.
LoadConfigTotal ==
    [][\A r \in Requests :
          worker[r].pc = "load" /\ worker'[r].pc # "load" =>
              /\ worker'[r].pc # "raised"
              /\ worker'[r].loaded \in {"none", "config"}
              /\ worker'[r].loaded = "config" <=> IsValidRecord(file)
              /\ IsValidRecord(file) =>
                     worker'[r].config = Identity(file.class_name, file.keyword)]_vars

\* a file that is JSON but no object was read as no identity
NonObjectReadAsNone ==
    \E r \in Requests :
        worker[r].loaded = "none" /\ file.kind = "array" /\ worker[r].pc = "prompt"

\* C10: every change of the record file installs the complete new record in one
\* step; the file never holds anything else in between.
SaveIsAtomic ==
    [][file' # file =>
          \E r \in Requests :
              /\ worker[r].pc \in {"save_open", "save_write"}
              /\ file' = RecordFile(worker[r].config)]_vars

\* C11, as claimed: every identity a request works with, and every record the
\* program wrote, has a non-empty class_name and a non-empty keyword.
IdentityFieldsNonEmpty ==
    \A r \in Requests :
        /\ worker[r].config # None =>
               worker[r].config.class_name # "" /\ worker[r].config.keyword # <<>>
        /\ worker[r].writes > 0 /\ IsValidRecord(file) =>
               file.class_name # "" /\ file.keyword # <<>>

\* C12: a request that loaded a valid record never changes the record file, and
\* a write of the record file begins only in a request whose _load_config gave
\* None and whose selection gave an identity.
RecordOnlyWrittenAfterSelection ==
    [][\A r \in Requests :
          /\ worker[r].loaded = "config" => file' = file
          /\ (file' # file \/ worker'[r].writes # worker[r].writes) =>
                 worker[r].loaded = "none" /\ worker[r].prompt = "selected"]_vars

\* a request that loaded a valid record has succeeded and the record is in place
LoadedRecordKept ==
    \E r \in Requests :
        /\ worker[r].loaded = "config"
        /\ worker[r].pc = "ended"
        /\ worker[r].ret = "true"
        /\ IsValidRecord(file)

\* the windows _get_pid inspects, in its order: those of "uia", then of "win32";
\* a backend that failed gives none
Enumerated(snap) ==
    (IF snap.uia.state = "ok" THEN snap.uia.windows ELSE <<>>)
    \o (IF snap.win32.state = "ok" THEN snap.win32.windows ELSE <<>>)

\* a window that can be inspected, whose class equals the discriminator when one
\* is set and whose title contains the keyword, both lowercased
Qualifies(w, config) ==
    /\ ~w.raises
    /\ config.class_name # "" => w.class_name = config.class_name
    /\ Contains(LowerStr(config.keyword), LowerStr(w.title))

\* C13: _get_pid gives the process id of the first qualifying window in the
\* order "uia" before "win32" and enumeration order within a backend, and None
\* exactly when no window qualifies.
ResolvesToFirstMatch ==
    [][\A r \in Requests :
          worker[r].pc = "match" /\ worker'[r].pc # "match" =>
              LET ws == Enumerated(worker[r].seen)
                  first == {i \in 1..Len(ws) :
                               /\ Qualifies(ws[i], worker[r].config)
                               /\ \A j \in 1..(i - 1) : ~Qualifies(ws[j], worker[r].config)}
              IN  /\ first = {} <=> worker'[r].resolved = "none"
                  /\ \A i \in first :
                         /\ worker'[r].resolved = "pid"
                         /\ worker'[r].pid = [found |-> TRUE, pid |-> ws[i].pid]]_vars

\* both backends hold qualifying windows of two processes, in opposite orders:
\* the first of "uia" is the match
FirstOfUiaWins ==
    \E r \in Requests :
        /\ worker[r].pc = "match"
        /\ worker[r].config = Identity("", <<"L", "a", "b">>)
        /\ worker[r].seen.uia = [state |-> "ok", windows |-> <<WApp, WOther>>]
        /\ worker[r].seen.win32 = [state |-> "ok", windows |-> <<WOther, WApp>>]
        /\ _get_pid(worker[r].config, worker[r].seen) = [found |-> TRUE, pid |-> 42]

\* C14: with an empty class_name the class of a window plays no part: _get_pid
\* gives the first inspectable window whose lowercased title contains the
\* lowercased keyword, and None exactly when there is none.
EmptyClassMatchesByKeyword ==
    [][\A r \in Requests :
          (/\ worker[r].pc = "match"
           /\ worker'[r].pc # "match"
           /\ worker[r].config.class_name = "") =>
              LET ws == Enumerated(worker[r].seen)
                  byTitle == {i \in 1..Len(ws) :
                                 /\ ~ws[i].raises
                                 /\ Contains(LowerStr(worker[r].config.keyword),
                                             LowerStr(ws[i].title))}
              IN  IF byTitle = {} THEN worker'[r].resolved = "none"
                  ELSE LET i == CHOOSE k \in byTitle : \A m \in byTitle : k <= m
                       IN  worker'[r].pid = [found |-> TRUE, pid |-> ws[i].pid]]_vars

\* an identity without class_name meets a window of another class whose title
\* holds the keyword in another case: that window is the match
KeywordOnlyMatch ==
    \E r \in Requests :
        /\ worker[r].pc = "match"
        /\ worker[r].config = Identity("", <<"L", "a", "b">>)
        /\ worker[r].seen.uia = [state |-> "ok", windows |-> <<WOther, WApp>>]
        /\ _get_pid(worker[r].config, worker[r].seen) = [found |-> TRUE, pid |-> 7]

\* a backend that failed, or a window whose inspection raises
HasFailure(snap) ==
    \/ snap.uia.state # "ok"
    \/ snap.win32.state # "ok"
    \/ \E i \in 1..Len(Enumerated(snap)) : Enumerated(snap)[i].raises

\* C15: when a backend or a window fails during _get_pid, no exception leaves
\* _get_pid, and a qualifying window among the windows that can still be
\* inspected is returned.
ResolutionSurvivesFailures ==
    [][\A r \in Requests :
          (/\ worker[r].pc = "match"
           /\ worker'[r].pc # "match"
           /\ HasFailure(worker[r].seen)) =>
              /\ worker'[r].pc # "raised"
              /\ worker'[r].resolved \in {"pid", "none"}
              /\ (\E i \in 1..Len(Enumerated(worker[r].seen)) :
                      Qualifies(Enumerated(worker[r].seen)[i], worker[r].config))
                  => /\ worker'[r].resolved = "pid"
                     /\ \E i \in 1..Len(Enumerated(worker[r].seen)) :
                            /\ Qualifies(Enumerated(worker[r].seen)[i], worker[r].config)
                            /\ worker'[r].pid.pid = Enumerated(worker[r].seen)[i].pid]_vars

\* "uia" failed and the first window of "win32" raises on inspection; the match
\* is the window behind it
MatchBehindFailures ==
    \E r \in Requests :
        /\ worker[r].pc = "match"
        /\ worker[r].config = Identity("OTBioLab", <<"L", "a", "b">>)
        /\ worker[r].seen.uia.state = "enum_raise"
        /\ worker[r].seen.win32 = [state |-> "ok", windows |-> <<WBroken, WApp>>]
        /\ _get_pid(worker[r].config, worker[r].seen) = [found |-> TRUE, pid |-> 42]

\* C16, as claimed: the positions of one poll iteration follow each other in the
\* order strategy 1, 2, 3, sleep, and a request stands at strategy 2, at strategy
\* 3 or at the sleep only when no earlier strategy of the iteration printed a hit.
StrictStrategyOrder ==
    /\ [][\A r \in Requests :
            /\ worker'[r].pc = "s1_uia" /\ worker[r].pc # "s1_uia" => worker[r].pc = "check"
            /\ worker'[r].pc = "s1_win32" /\ worker[r].pc # "s1_win32" =>
                   worker[r].pc = "s1_uia"
            /\ worker'[r].pc = "s2" /\ worker[r].pc # "s2" => worker[r].pc = "s1_win32"
            /\ worker'[r].pc = "s3" /\ worker[r].pc # "s3" => worker[r].pc = "s2"
            /\ worker'[r].pc = "sleep" /\ worker[r].pc # "sleep" => worker[r].pc = "s3"]_vars
    /\ [](\A r \in Requests :
            /\ worker[r].pc = "s2" => 1 \notin worker[r].hit
            /\ worker[r].pc = "s3" => worker[r].hit \cap {1, 2} = {}
            /\ worker[r].pc = "sleep" => worker[r].hit = {})

\* C17, as claimed: the window of every strategy that printed a hit reached the
\* interactor.
EveryHitHandedOver ==
    \A r \in Requests : worker[r].hit \subseteq worker[r].handed

\* C18, as claimed: nothing is typed or confirmed before strategy 1 reported a
\* dialog, and no poll iteration begins after it did.
AcquiredAtFirstReport ==
    /\ [][\A r \in Requests :
            worker[r].pc = "check" /\ worker'[r].pc = "s1_uia" => worker[r].hits = 0]_vars
    /\ [](\A r \in Requests :
            worker[r].hits = 0 =>
                /\ worker[r].typed = 0
                /\ worker[r].clicks = 0
                /\ worker[r].enters = 0
                /\ worker[r].filled = 0)

\* C20, as claimed: no step of the poll loop ends save_in_word_dialog with an
\* exception.
LoopSwallowsExceptions ==
    [][\A r \in Requests :
          worker[r].pc \in {"check", "s1_uia", "s1_win32", "s2", "s3", "sleep"} =>
              worker'[r].pc # "raised"]_vars

\* C19, as claimed: with a timeout below one poll interval, a call that resolved
\* a process ends with the timeout failure after at most one poll iteration.
ShortTimeoutFails ==
    \A r \in Requests :
        worker[r].timeout < PollTicks /\ worker[r].resolved = "pid" =>
            /\ worker[r].iters <= 1
            /\ worker[r].pc \notin AutomationPcs =>
                   /\ worker[r].pc = "returned"
                   /\ worker[r].ret = "false"
                   /\ worker[r].exit = "timeout"

\* C19, amended: with timeout 0 no poll iteration begins and the call returns the
\* timeout failure; with a positive timeout below one poll interval at most one
\* iteration begins, and the call returns the timeout failure unless the
\* interactor returned in that iteration or a Desktop() of strategy 1 raised.
ShortTimeoutOnePoll ==
    \A r \in Requests :
        worker[r].timeout < PollTicks /\ worker[r].resolved = "pid" =>
            /\ worker[r].iters <= 1
            /\ worker[r].timeout = 0 => worker[r].iters = 0 /\ worker[r].hits = 0
            /\ worker[r].pc = "returned" /\ worker[r].filled = 0 =>
                   worker[r].ret = "false" /\ worker[r].exit = "timeout"
            /\ worker[r].pc = "returned" /\ worker[r].filled > 0 =>
                   worker[r].ret = "true" /\ worker[r].exit = "hit" /\ worker[r].iters = 1
            /\ worker[r].pc = "raised" => worker[r].iters = 1

\* a call with a positive timeout below one poll interval polled once without a
\* hit and returned the timeout failure
TimedOutAfterOnePoll ==
    \E r \in Requests :
        /\ worker[r].timeout > 0
        /\ worker[r].timeout < PollTicks
        /\ worker[r].pc = "returned"
        /\ worker[r].exit = "timeout"
        /\ worker[r].iters = 1

\* C21, as claimed: a request sends the Enter keypress of the fallback at most
\* once, whatever the number of interactor runs and poll iterations.
EnterSentOnce ==
    \A r \in Requests : worker[r].enters <= 1

\* the dialog strategy 1 is about to hand to the interactor in request r
Handed(r) ==
    worker[r].pc = "fill" /\ IsHit(worker[r].seen.look)

\* C22: when no call of an interactor run raises out of it, save_in_word_dialog
\* returns True at the hit and the worker function computes success, also for a
\* dialog without a Speichern or Save button; nothing else is looked at.
CompletedRunSucceeds ==
    [][\A r \in Requests :
          Handed(r) =>
              LET calls == FillCalls(worker[r].seen.dlg)
              IN  (\A i \in DOMAIN calls : ~Escapes(calls[i])) =>
                      /\ worker'[r].pc = "returned"
                      /\ worker'[r].ret = "true"
                      /\ worker'[r].exit = "hit"
                      /\ WorkerResult(worker[r].origin, worker'[r].ret).success]_vars

\* a run on a dialog without a button completed with the Enter fallback and the
\* call returned True
SucceededByEnter ==
    \E r \in Requests :
        /\ worker[r].pc = "returned"
        /\ worker[r].ret = "true"
        /\ worker[r].typed = 1
        /\ worker[r].enters = 1
        /\ worker[r].clicks = 0

\* C23, as claimed: when neither the Edit nor the ComboBox lookup succeeds in an
\* acquired dialog, the call ends there, and its result is a failure whose message
\* is not the one of a dialog that was not found.
LookupFailureReported ==
    [][\A r \in Requests :
          Handed(r) /\ ~worker[r].seen.dlg.edit /\ ~worker[r].seen.dlg.combo =>
              /\ worker'[r].pc \in {"returned", "raised"}
              /\ ~WorkerResult(worker[r].origin, worker'[r].ret).success
              /\ WorkerResult(worker[r].origin, worker'[r].ret).message
                     \notin {MsgNotFound, "Timeout oder Fehler beim Speichern."}]_vars

\* C26: the interactor runs on a window only if the lookup of that strategy run
\* reported it existing and visible: on any other report strategy 1 types nothing,
\* confirms nothing and goes on; strategies 2 and 3 hand no window over.
OnlyVisibleHandedOver ==
    /\ [][\A r \in Requests :
            worker[r].pc = "fill" /\ worker[r].seen.look # "visible" =>
                worker'[r] = [worker[r] EXCEPT !.pc = AfterS1(worker[r].seen.be),
                                               !.seen = None]]_vars
    /\ [](\A r \in Requests : worker[r].handed \subseteq {1})

\* backend 'win32' reports a dialog that exists but is not visible, after the
\* visible dialog reported by 'uia' was handed to the interactor
HiddenDialogReported ==
    \E r \in Requests :
        /\ worker[r].pc = "fill"
        /\ worker[r].seen.look = "hidden"
        /\ worker[r].seen.be = "s1_win32"
        /\ worker[r].handed = {1}

\* C27, as claimed: in every interactor run that types the path, the call
\* set_edit_text("") directly before it succeeded.
ClearedBeforeTyping ==
    [][\A r \in Requests :
          Handed(r) =>
              LET calls == FillCalls(worker[r].seen.dlg)
              IN  \A i \in DOMAIN calls :
                      calls[i].call = "type_keys(path)" =>
                          /\ i > 1
                          /\ calls[i - 1].call = "set_edit_text"
                          /\ calls[i - 1].ok]_vars

\* the path was typed into the control and the call completed
Injected(calls) ==
    \E i \in DOMAIN calls : calls[i].call = "type_keys(path)" /\ calls[i].ok

\* C28: an interactor run whose type_keys(path) completed ends with exactly one
\* confirmation, the click if a button was found and else the Enter key; a run
\* whose type_keys(path) did not complete clicks nothing and sends no Enter.
ConfirmationFollowsInjection ==
    [][\A r \in Requests :
          Handed(r) =>
              LET dlg == worker[r].seen.dlg
                  calls == FillCalls(dlg)
                  clicks == Made(calls, "click_input")
                  enters == Made(calls, "type_keys({ENTER})")
              IN  /\ worker'[r].clicks = Bump(worker[r].clicks, clicks)
                  /\ worker'[r].enters = Bump(worker[r].enters, enters)
                  /\ Injected(calls) =>
                         /\ clicks + enters = 1
                         /\ calls[Len(calls)].call \in {"click_input", "type_keys({ENTER})"}
                         /\ clicks = 1 <=> dlg.button # "none"
                  /\ ~Injected(calls) => clicks = 0 /\ enters = 0]_vars

\* a run typed the path, found a button and clicked it
ClickedAfterInjection ==
    \E r \in Requests :
        /\ worker[r].pc = "returned"
        /\ worker[r].hits = 1
        /\ worker[r].typed = 1
        /\ worker[r].clicks = 1
        /\ worker[r].enters = 0

\* C29: the interactor looks up the Edit first and uses it when found; only when
\* that lookup raises does it look up the ComboBox and use the Edit inside it;
\* when both lookups raise, nothing is typed, clicked or confirmed.
EditPreferred ==
    [][\A r \in Requests :
          Handed(r) =>
              LET dlg == worker[r].seen.dlg
                  calls == FillCalls(dlg)
                  used == {calls[i].on : i \in {j \in DOMAIN calls :
                              calls[j].call \in {"set_focus", "set_edit_text", "type_keys(path)"}}}
              IN  /\ calls[1] = Call("child_window", "Edit", dlg.edit)
                  /\ dlg.edit =>
                         /\ \A i \in DOMAIN calls : calls[i].on # "ComboBox.Edit"
                         /\ used = {"Edit"}
                  /\ ~dlg.edit =>
                         /\ calls[2] = Call("child_window", "ComboBox.Edit", dlg.combo)
                         /\ used \subseteq {"ComboBox.Edit"}
                  /\ ~dlg.edit /\ ~dlg.combo =>
                         /\ Len(calls) = 2
                         /\ worker'[r].typed = worker[r].typed
                         /\ worker'[r].clicks = worker[r].clicks
                         /\ worker'[r].enters = worker[r].enters
                         /\ worker'[r].filled = worker[r].filled]_vars

\* a dialog whose Edit lookup raises and whose ComboBox holds the filename Edit is
\* handed to the interactor by backend 'win32', after the run on 'uia' found
\* neither and typed nothing
ComboFallbackUsed ==
    \E r \in Requests :
        /\ Handed(r)
        /\ worker[r].seen.be = "s1_win32"
        /\ ~worker[r].seen.dlg.edit
        /\ worker[r].seen.dlg.combo
        /\ worker[r].hits = 1
        /\ worker[r].typed = 0

\* the (lowercase class name, lowercase title) key of a window
LowerKey(w) == <<LowerName(w.class_name), LowerStr(Strip(w.title))>>

\* a window the selection can list: inspectable, visible, with a title and a class
Listable(w) ==
    ~w.raises /\ w.visible /\ Strip(w.title) # <<>> /\ w.class_name # ""

\* the positions in ws of the first listable window of each key
FirstOfKey(ws) ==
    {k \in DOMAIN ws :
        /\ Listable(ws[k])
        /\ \A j \in 1..(k - 1) : ~(Listable(ws[j]) /\ LowerKey(ws[j]) = LowerKey(ws[k]))}

\* C30: the list offered for selection holds no two entries of the same
\* (lowercase class name, lowercase title) key; its entries are the first window
\* of each key, in the order of the enumeration.
CandidatesDistinct ==
    \A r \in Requests :
        worker[r].pc = "choose" =>
            LET ws == worker[r].seen.windows
                offered == Candidates(ws, {}, <<>>)
                first == FirstOfKey(ws)
            IN  /\ \A i, j \in DOMAIN offered :
                       <<LowerName(offered[i].class_name), LowerStr(offered[i].title)>>
                         = <<LowerName(offered[j].class_name), LowerStr(offered[j].title)>>
                           => i = j
                /\ Len(offered) = Cardinality(first)
                /\ \A k \in first :
                       LET i == Cardinality({j \in first : j <= k})
                       IN  offered[i] = [title |-> Strip(ws[k].title),
                                         class_name |-> ws[k].class_name]

\* the enumeration gave two different listable windows of one key, and one entry
\* is offered
CaseDuplicateDropped ==
    \E r \in Requests :
        /\ worker[r].pc = "choose"
        /\ LET ws == worker[r].seen.windows
           IN  /\ Len(ws) = 2
               /\ ws[1] # ws[2]
               /\ Listable(ws[1]) /\ Listable(ws[2])
               /\ LowerKey(ws[1]) = LowerKey(ws[2])
               /\ Len(Candidates(ws, {}, <<>>)) = 1

\* request r was submitted and its completion callback has not run
InFlight(r) == worker[r].pc \notin {"idle", "done"}

\* C24, as claimed: while a request is in flight, the step-level trigger, the
\* field-level buttons and the buttons of the attempts are disabled.
SubmittersDisabledInFlight ==
    \A r \in Requests :
        InFlight(r) =>
            /\ trigger_button = "disabled"
            /\ FieldButton = "disabled"
            /\ AttemptButton = "disabled"

\* C25: a step of a worker thread changes no session state and no widget of the
\* wizard; these change only in steps of the Tk main loop, and for a request only
\* in the handler that starts it and in its completion callback.
WorkerTouchesNoSessionState ==
    /\ [][\A r \in Requests :
            worker[r].pc \in RunningPcs /\ worker'[r] # worker[r] =>
                UNCHANGED uiVars]_vars
    /\ [][~UNCHANGED uiVars =>
            /\ UiIdle
            /\ \A r \in Requests :
                   \/ worker'[r] = worker[r]
                   \/ worker[r].pc = "idle"
                   \/ worker[r].pc = "ended" /\ worker'[r].pc = "done"]_vars

\* the callback of a field-level request recorded its path after the thread ended
RecordedByCallback ==
    \E r \in Requests :
        /\ worker[r].pc = "done"
        /\ worker[r].posts = 1
        /\ current_step_field_otbiolab_files = <<PathOf(r)>>
        /\ afterQueue = <<>>

\* C34, as claimed: across all backends and poll iterations of one request,
\* edit.type_keys(path) is executed at most once.
PathTypedOnce ==
    \A r \in Requests : worker[r].typed <= 1

\* C33, as claimed: the keyword of an identity that came from the selection
\* dialog, and the keyword of the record _save_config wrote for it, hold no
\* uppercase character.
SelectedKeywordLowercase ==
    \A r \in Requests :
        /\ worker[r].prompt = "selected" /\ worker[r].config # None =>
               worker[r].config.keyword = LowerStr(worker[r].config.keyword)
        /\ worker[r].prompt = "selected" /\ worker[r].writes > 0 /\ IsValidRecord(file) =>
               file.keyword = LowerStr(file.keyword)

\* C31, as claimed: the window whose process id _get_pid returns has a title and
\* a class name that are not empty, whatever the identity.
UnusableNeverMatched ==
    [][\A r \in Requests :
          worker[r].pc = "match" /\ worker'[r].resolved = "pid" =>
              LET ws == Enumerated(worker[r].seen)
              IN  \A i \in 1..Len(ws) :
                      ws[i].pid = worker'[r].pid.pid =>
                          Strip(ws[i].title) # <<>> /\ ws[i].class_name # ""]_vars

\* the stretches of the title t between two dashes or an end of t, as pairs of the
\* positions that bound them
Segments(t) ==
    LET ends == {0, Len(t) + 1} \cup {i \in DOMAIN t : IsDash(t[i])}
    IN  {s \in ends \X ends :
            s[1] < s[2] /\ \A i \in (s[1] + 1)..(s[2] - 1) : ~IsDash(t[i])}

\* the text of the segment s of t without the whitespace around it
SegmentText(t, s) == Strip(SubSeq(t, s[1] + 1, s[2] - 1))

\* C32: the keyword on_select derives from a title is its last segment between
\* hyphens, en dashes and em dashes that is not blank, without the whitespace
\* around it; for a title without a dash it is the trimmed title; and it is not
\* empty unless the title is blank.
KeywordIsLastSegment ==
    [][\A r \in Requests :
          worker[r].pc = "select" /\ worker'[r].pc # "select" =>
              LET t == worker[r].seen.title
                  k == worker'[r].config.keyword
                  filled == {s \in Segments(t) : SegmentText(t, s) # <<>>}
              IN  /\ \A s \in filled :
                         (\A o \in filled : o[1] <= s[1]) => k = SegmentText(t, s)
                  /\ (\A i \in DOMAIN t : ~IsDash(t[i])) => k = Strip(t)
                  /\ Strip(t) # <<>> => k # <<>>]_vars

\* on_select has derived the keyword "b" from the title "a<em dash> b"
TitleWithDash ==
    \E r \in Requests :
        /\ worker[r].prompt = "selected"
        /\ worker[r].seen.title = <<"a", "mdash", " ", "b">>
        /\ worker[r].config.keyword = <<"b">>

\* the list of paths `list` holds the path p
Holds(list, p) == \E i \in DOMAIN list : list[i] = p

\* C35, as claimed: when the completion callback of a request adds its path to
\* the list of the current step or of its field, the current step is the step
\* the request was submitted from.
RecordedForSubmittingStep ==
    [][\A r \in DOMAIN worker :
          (/\ worker[r].pc = "ended"
           /\ worker'[r].pc = "done"
           /\ \/ /\ Holds(current_step_otbiolab_paths', PathOf(r))
                 /\ ~Holds(current_step_otbiolab_paths, PathOf(r))
              \/ /\ Holds(current_step_field_otbiolab_files', PathOf(r))
                 /\ ~Holds(current_step_field_otbiolab_files, PathOf(r)))
            => worker[r].step = current_step_index]_vars

\* C36, as claimed: while a step-level request is in flight, next_button ("Weiter")
\* is disabled.
NextDisabledInFlight ==
    \A r \in DOMAIN worker :
        worker[r].origin = "step" /\ InFlight(r) => next_button = "disabled"

\* C37, as claimed: two field-level requests of the same step whose calls both
\* returned True, so that both paths are recorded, were given different file
\* numbers.
FileNumbersDistinct ==
    \A r1, r2 \in DOMAIN worker :
        (/\ r1 # r2
         /\ worker[r1].origin = "field" /\ worker[r2].origin = "field"
         /\ worker[r1].pc = "ended" /\ worker[r2].pc = "ended"
         /\ worker[r1].ret = "true" /\ worker[r2].ret = "true"
         /\ worker[r1].step = worker[r2].step)
          => worker[r1].number # worker[r2].number

\* C38, as claimed: a path recorded for the current step, which has no result in
\* step_results yet, is not lost by navigation: whenever Weiter or Zurueck leaves
\* the step, the result recorded for that step holds the path.
PathsSurviveNavigation ==
    [][\A p \in {PathOf(r) : r \in DOMAIN worker} :
          (/\ current_step_index' # current_step_index
           /\ Len(step_results) <= current_step_index
           /\ \/ Holds(current_step_otbiolab_paths, p)
              \/ Holds(current_step_field_otbiolab_files, p))
            => /\ Len(step_results') > current_step_index
               /\ \/ Holds(step_results'[current_step_index + 1].otbiolab_paths, p)
                  \/ Holds(step_results'[current_step_index + 1].field_otbiolab_files, p)]_vars

\* C39: during an active session the current step is a step of the declaration,
\* step_results holds between current_step_index and NumSteps results, the i-th
\* result is the result of declaration step i, and completing a step that already
\* has a result replaces that result with the one just taken, leaving the number
\* of results as it was.
ResultsFollowSteps ==
    /\ [](~session_finished =>
            /\ 0 <= current_step_index /\ current_step_index < NumSteps
            /\ current_step_index <= Len(step_results)
            /\ Len(step_results) <= NumSteps
            /\ \A i \in DOMAIN step_results : step_results[i].step = i - 1)
    /\ [][(/\ ~session_finished
           /\ Len(step_results) > current_step_index
           /\ \/ current_step_index' = current_step_index + 1
              \/ session_finished')
            => /\ Len(step_results') = Len(step_results)
               /\ step_results'[current_step_index + 1]
                      = StepResult(current_step_index, current_step_otbiolab_paths,
                                   current_step_field_otbiolab_files,
                                   current_step_repeated_measurements)
               /\ \A i \in DOMAIN step_results :
                      i # current_step_index + 1 => step_results'[i] = step_results[i]]_vars

\* the wizard is back on the first step, whose recorded result holds no path, with
\* a path handed off since and the step about to be completed again
RecordedStepRevisited ==
    /\ ~session_finished
    /\ current_step_index = 0
    /\ Len(step_results) > 0
    /\ step_results[1].otbiolab_paths = <<>>
    /\ current_step_otbiolab_paths # <<>>
    /\ next_button = "normal"
    /\ UiIdle

====
